---- MODULE Spec2Model ----
(***************************************************************************)
(* Model of app.py, the social media post generator: the aspect fitting of *)
(* the background (fit_image_to_size), the render pipeline                 *)
(* (generate_post_image, add_brand_logo, add_text_overlays) and the        *)
(* Streamlit script run with its temporary files.                          *)
(*                                                                         *)
(* Python floats are IEEE-754 doubles.  int(tw / img_aspect) truncates a   *)
(* doubly rounded quotient, so the float operations are modelled bit for   *)
(* bit: a double is a 53-bit mantissa m and an exponent e, value m * 2^e,  *)
(* and the mantissa is kept in three 24-bit limbs.                         *)
(***************************************************************************)
EXTENDS Integers, Sequences, FiniteSets, TLC

\* ------------------------------------------------------------------------
\* Bounds of the model
\* ------------------------------------------------------------------------
MaxSrc == 24
MaxTextW == 3
MaxTextH == 2
MaxRuns == 2

\* ------------------------------------------------------------------------
\* Natural numbers below 2^72, little-endian in three limbs of 24 bits
\* ------------------------------------------------------------------------
Limb == 4096 * 4096

BigZero == <<0, 0, 0>>

BigOne == <<1, 0, 0>>

Two52 == <<0, 0, 16>>

Two53 == <<0, 0, 32>>

BigOfInt(n) == <<n % Limb, n \div Limb, 0>>

BigCarry(x) ==
  LET c0 == x[1] \div Limb
      c1 == (x[2] + c0) \div Limb
  IN  <<x[1] % Limb, (x[2] + c0) % Limb, x[3] + c1>>

BigAdd(x, y) == BigCarry(<<x[1] + y[1], x[2] + y[2], x[3] + y[3]>>)

BigGeq(x, y) ==
  \/ x[3] > y[3]
  \/ x[3] = y[3] /\ x[2] > y[2]
  \/ x[3] = y[3] /\ x[2] = y[2] /\ x[1] >= y[1]

\* x - y for x >= y
BigSub(x, y) ==
  LET b0 == IF x[1] < y[1] THEN 1 ELSE 0
      d0 == x[1] - y[1] + b0 * Limb
      b1 == IF x[2] - b0 < y[2] THEN 1 ELSE 0
      d1 == x[2] - b0 - y[2] + b1 * Limb
  IN  <<d0, d1, x[3] - b1 - y[3]>>

BigDouble(x) == BigAdd(x, x)

BigOdd(x) == x[1] % 2 = 1

BigHalf(x) ==
  <<(x[1] \div 2) + (x[2] % 2) * (Limb \div 2),
    (x[2] \div 2) + (x[3] % 2) * (Limb \div 2),
    x[3] \div 2>>

RECURSIVE BigMulInt(_, _)
BigMulInt(x, n) ==
  IF n = 0 THEN BigZero
  ELSE BigAdd(IF n % 2 = 1 THEN x ELSE BigZero, BigDouble(BigMulInt(x, n \div 2)))

\* ------------------------------------------------------------------------
\* IEEE-754 binary64, positive normal values: [m, e] with 2^52 <= m < 2^53
\* ------------------------------------------------------------------------

\* round to nearest, ties to even: q is the truncated mantissa, up says that
\* the discarded part is above one half, tie that it is exactly one half
RoundNearestEven(q, e, up, tie) ==
  LET inc == up \/ (tie /\ BigOdd(q))
      r   == IF inc THEN BigAdd(q, BigOne) ELSE q
  IN  IF BigGeq(r, Two53) THEN [m |-> BigHalf(r), e |-> e + 1]
      ELSE [m |-> r, e |-> e]

RECURSIVE ShiftUp(_, _)
ShiftUp(x, e) ==
  IF BigGeq(x, Two52) THEN [m |-> x, e |-> e]
  ELSE ShiftUp(BigDouble(x), e - 1)

\* g is the last bit shifted out, s whether any bit below it was set
RECURSIVE ShiftDown(_, _, _, _)
ShiftDown(x, e, g, s) ==
  IF BigGeq(x, Two53)
  THEN ShiftDown(BigHalf(x), e + 1, BigOdd(x), s \/ g)
  ELSE RoundNearestEven(x, e, g /\ s, g /\ ~s)

\* the double nearest to x * 2^e, for x > 0
FloatOfBig(x, e) ==
  IF BigGeq(x, Two53) THEN ShiftDown(x, e, FALSE, FALSE) ELSE ShiftUp(x, e)

\* float(n) for a positive int n
FloatOfInt(n) == FloatOfBig(BigOfInt(n), 0)

\* binary long division: quotient bits until the quotient has 53 bits
RECURSIVE DivBits(_, _, _, _)
DivBits(q, r, d, k) ==
  IF BigGeq(q, Two52) THEN [q |-> q, r |-> r, k |-> k]
  ELSE LET r2  == BigDouble(r)
           bit == BigGeq(r2, d)
       IN  DivBits(BigAdd(BigDouble(q), IF bit THEN BigOne ELSE BigZero),
                   IF bit THEN BigSub(r2, d) ELSE r2, d, k + 1)

\* x / y
FloatDiv(x, y) ==
  LET first == BigGeq(x.m, y.m)
      res   == DivBits(IF first THEN BigOne ELSE BigZero,
                       IF first THEN BigSub(x.m, y.m) ELSE x.m, y.m, 0)
      r2    == BigDouble(res.r)
  IN  RoundNearestEven(res.q, x.e - y.e - res.k,
                       r2 /= y.m /\ BigGeq(r2, y.m), r2 = y.m)

\* float(n) * y: the exact product n * y.m * 2^y.e, rounded once
FloatMulInt(n, y) == FloatOfBig(BigMulInt(y.m, n), y.e)

\* x > y
FloatGt(x, y) ==
  \/ x.e > y.e
  \/ x.e = y.e /\ x.m /= y.m /\ BigGeq(x.m, y.m)

RECURSIVE BigShiftRight(_, _)
BigShiftRight(x, n) ==
  IF n = 0 \/ x = BigZero THEN x ELSE BigShiftRight(BigHalf(x), n - 1)

\* int(x): truncation toward zero; the values here are below 2^24
FloatToInt(x) ==
  LET t == BigShiftRight(x.m, 0 - x.e)
  IN  t[1] + t[2] * Limb

\* ------------------------------------------------------------------------
\* SOCIAL_SIZES and fit_image_to_size
\* ------------------------------------------------------------------------
SOCIAL_SIZES == {<<1080, 1080>>, <<1200, 628>>, <<1080, 1920>>,
                 <<1080, 1350>>, <<1000, 1500>>}

\* Image.resize raises ValueError ("height and width must be > 0") when a
\* requested dimension is below 1
ResizeOk(size) == size[1] >= 1 /\ size[2] >= 1

\* ImageOps.expand(img, (left, top, right, bottom)): the size of the result
ExpandSize(size, padding) ==
  <<padding[1] + size[1] + padding[3], padding[2] + size[2] + padding[4]>>

\* img.crop((left, upper, right, lower)): the size of the result
CropSize(box) == <<box[3] - box[1], box[4] - box[2]>>

NoPadding == <<0, 0, 0, 0>>

\* the odd pixel on the leading side
FitWiderPaddingLeading(th, new_height) ==
  <<0, (th - new_height) - (th - new_height) \div 2, 0, (th - new_height) \div 2>>

FitWiderPadding(th, new_height) ==
  <<0, (th - new_height) \div 2, 0, (th - new_height) - (th - new_height) \div 2>>

FitTallerPadding(tw, new_width) ==
  <<(tw - new_width) \div 2, 0, (tw - new_width) - (tw - new_width) \div 2, 0>>

FitWiderHeight(tw, img_aspect) == FloatToInt(FloatDiv(FloatOfInt(tw), img_aspect))

\* rounding up instead of truncating
FitTallerWidthCeil(th, img_aspect) == FloatToInt(FloatMulInt(th, img_aspect)) + 1

FitTallerWidth(th, img_aspect) == FloatToInt(FloatMulInt(th, img_aspect))

FitImageToSize(size, target_size) ==
  LET tw == target_size[1]
      th == target_size[2]
      w  == size[1]
      h  == size[2]
      img_aspect    == FloatDiv(FloatOfInt(w), FloatOfInt(h))
      target_aspect == FloatDiv(FloatOfInt(tw), FloatOfInt(th))
  IN  IF FloatGt(img_aspect, target_aspect)
      THEN LET new_width  == tw
               new_height == FitWiderHeight(tw, img_aspect)
               scaled     == <<new_width, new_height>>
           IN  IF ~ResizeOk(scaled)
               THEN [status |-> "error", branch |-> "wider", sub |-> "none",
                     scaled |-> scaled, border |-> NoPadding, size |-> <<0, 0>>]
               ELSE IF new_height < th
               THEN [status |-> "ok", branch |-> "wider", sub |-> "pad",
                     scaled |-> scaled, border |-> FitWiderPadding(th, new_height),
                     size |-> ExpandSize(scaled, FitWiderPadding(th, new_height))]
               ELSE IF new_height > th
               THEN LET top == (new_height - th) \div 2
                    IN  [status |-> "ok", branch |-> "wider", sub |-> "crop",
                         scaled |-> scaled, border |-> NoPadding,
                         size |-> CropSize(<<0, top, tw, top + th>>)]
               ELSE [status |-> "ok", branch |-> "wider", sub |-> "none",
                     scaled |-> scaled, border |-> NoPadding, size |-> scaled]
      ELSE LET new_height == th
               new_width  == FitTallerWidth(th, img_aspect)
               scaled     == <<new_width, new_height>>
           IN  IF ~ResizeOk(scaled)
               THEN [status |-> "error", branch |-> "taller", sub |-> "none",
                     scaled |-> scaled, border |-> NoPadding, size |-> <<0, 0>>]
               ELSE IF new_width < tw
               THEN [status |-> "ok", branch |-> "taller", sub |-> "pad",
                     scaled |-> scaled, border |-> FitTallerPadding(tw, new_width),
                     size |-> ExpandSize(scaled, FitTallerPadding(tw, new_width))]
               ELSE IF new_width > tw
               THEN LET left == (new_width - tw) \div 2
                    IN  [status |-> "ok", branch |-> "taller", sub |-> "crop",
                         scaled |-> scaled, border |-> NoPadding,
                         size |-> CropSize(<<left, 0, left + tw, th>>)]
               ELSE [status |-> "ok", branch |-> "taller", sub |-> "none",
                     scaled |-> scaled, border |-> NoPadding, size |-> scaled]


\* ------------------------------------------------------------------------
\* State
\* ------------------------------------------------------------------------
VARIABLES
  fsrc,          \* fit_image_to_size: img.size
  ftarget,       \* fit_image_to_size: target_size
  fres,          \* fit_image_to_size: what the call produced
  fpc,           \* "call" before the call, "done" after it
  brand_config,  \* BrandConfig
  post_config,   \* PostConfig
  no_user_image, \* argument of generate_post_image
  pc,            \* position in generate_post_image
  base_img,      \* the canvas: its size, the source it was made from
  layers,        \* what was composited onto the canvas, in order
  logo_box,      \* where the logo was composited: x, y, width, height
  fonts,         \* the fonts add_text_overlays ended up with
  text_layout,   \* origins and measured sizes of the drawn text
  error,         \* which input made generate_post_image raise
  files,         \* temporary files in the working directory
  spc,           \* position of each session's script run
  widgets,       \* each session's uploads
  loaded,        \* what each session's render read from disk
  runs           \* script runs each session has started

fitVars == <<fsrc, ftarget, fres, fpc>>

renderVars == <<brand_config, post_config, no_user_image, pc, base_img,
                layers, logo_box, fonts, text_layout, error>>

sessionVars == <<files, spc, widgets, loaded, runs>>

vars == <<fitVars, renderVars, sessionVars>>

\* ------------------------------------------------------------------------
\* fit_image_to_size as a program of its own
\* ------------------------------------------------------------------------
NoResult == [status |-> "none", branch |-> "none", sub |-> "none",
             scaled |-> <<0, 0>>, border |-> NoPadding, size |-> <<0, 0>>]

\* source sizes: every small size, the sizes of the documented scenarios,
\* the DALL-E size, and some extreme aspect ratios
ScenarioSizes == {<<1024, 1024>>, <<2000, 1000>>, <<800, 2400>>, <<300, 157>>}

ExtremeSizes == {<<2000, 1>>, <<1, 2000>>, <<1081, 1>>, <<1, 1921>>}

SourceSizes == ((1..MaxSrc) \X (1..MaxSrc)) \cup ScenarioSizes \cup ExtremeSizes

FitIdle ==
  /\ fsrc = <<1, 1>>
  /\ ftarget = <<1080, 1080>>
  /\ fres = NoResult
  /\ fpc = "idle"

FitStart ==
  /\ fsrc \in SourceSizes
  /\ ftarget \in SOCIAL_SIZES
  /\ fres = NoResult
  /\ fpc = "call"

FitCall ==
  /\ fpc = "call"
  /\ fres' = FitImageToSize(fsrc, ftarget)
  /\ fpc' = "done"
  /\ UNCHANGED <<fsrc, ftarget>>
  /\ UNCHANGED <<renderVars, sessionVars>>


\* ------------------------------------------------------------------------
\* generate_post_image
\* ------------------------------------------------------------------------
NoImage == [ok |-> FALSE, size |-> <<0, 0>>]

Readable(size) == [ok |-> TRUE, size |-> size]

\* generate_ai_image asks for size="1024x1024"
AI_IMAGE_SIZE == <<1024, 1024>>

\* the uploaded background: None, a file that does not decode, or an image
UserImages == {NoImage} \cup {Readable(s) : s \in {<<2000, 1000>>, <<800, 2400>>}}

\* the logo: None, a file that does not decode, or an image
LogoPaths == {"None", "unreadable", "readable"}

LogoSizes == {<<400, 400>>, <<1, 1000>>}

FontPaths == {"loadable", "unloadable"}

ColorStrings == {"valid", "malformed"}

BrandConfigs ==
  {[brand_logo_path |-> l, logo |-> IF l = "readable" THEN Readable(s) ELSE NoImage,
    primary_colors |-> c, secondary_colors |-> c,
    primary_font_path |-> pf, secondary_font_path |-> sf] :
     l \in LogoPaths, s \in LogoSizes, c \in ColorStrings,
     pf \in FontPaths, sf \in FontPaths}

\* occasion is the empty string or some text; user_image_path is None exactly
\* when no_user_image
PostConfigs(nui) ==
  {[occasion |-> o, user_image |-> u, desired_output_size |-> d] :
     o \in {"", "text"},
     u \in IF nui THEN {NoImage} ELSE UserImages,
     d \in SOCIAL_SIZES}

NoCanvas == [size |-> <<0, 0>>, source |-> <<0, 0>>, scaled |-> <<0, 0>>]

NoFonts == [primary |-> "none", secondary |-> "none"]

NoBox == <<0, 0, 0, 0>>

NoText == [overlay |-> NoBox, tx |-> 0, ty |-> 0, tw |-> 0, th |-> 0,
           bottom |-> FALSE, bx |-> 0, by |-> 0, btw |-> 0, bth |-> 0]

RenderIdle ==
  /\ brand_config = [brand_logo_path |-> "None", logo |-> NoImage,
                     primary_colors |-> "valid", secondary_colors |-> "valid",
                     primary_font_path |-> "loadable",
                     secondary_font_path |-> "loadable"]
  /\ post_config = [occasion |-> "", user_image |-> NoImage,
                    desired_output_size |-> <<1080, 1080>>]
  /\ no_user_image = TRUE
  /\ pc = "idle"
  /\ base_img = NoCanvas
  /\ layers = <<>>
  /\ logo_box = NoBox
  /\ fonts = NoFonts
  /\ text_layout = NoText
  /\ error = "none"

RenderStart ==
  /\ brand_config \in BrandConfigs
  /\ no_user_image \in BOOLEAN
  /\ post_config \in PostConfigs(no_user_image)
  /\ pc = "begin"
  /\ base_img = NoCanvas
  /\ layers = <<>>
  /\ logo_box = NoBox
  /\ fonts = NoFonts
  /\ text_layout = NoText
  /\ error = "none"

Raise(what) ==
  /\ pc' = "raised"
  /\ error' = what
  /\ UNCHANGED <<base_img, layers, logo_box, fonts, text_layout>>

\* lines 186-192: the AI image, fitted to the desired size
BackgroundAI ==
  /\ pc = "begin"
  /\ no_user_image
  /\ LET fit == FitImageToSize(AI_IMAGE_SIZE, post_config.desired_output_size)
     IN  IF fit.status = "error" THEN Raise("background")
         ELSE /\ base_img' = [size |-> fit.size, source |-> AI_IMAGE_SIZE,
                              scaled |-> fit.scaled]
              /\ layers' = <<"background">>
              /\ pc' = "background"
              /\ UNCHANGED <<logo_box, fonts, text_layout, error>>
  /\ UNCHANGED <<brand_config, post_config, no_user_image>>
  /\ UNCHANGED <<fitVars, sessionVars>>

\* lines 193-196: the uploaded image, resized to the desired size
BackgroundUser ==
  /\ pc = "begin"
  /\ ~no_user_image
  /\ IF ~post_config.user_image.ok THEN Raise("background")
     ELSE /\ base_img' = [size |-> post_config.desired_output_size,
                          source |-> post_config.user_image.size,
                          scaled |-> post_config.desired_output_size]
          /\ layers' = <<"background">>
          /\ pc' = "background"
          /\ UNCHANGED <<logo_box, fonts, text_layout, error>>
  /\ UNCHANGED <<brand_config, post_config, no_user_image>>
  /\ UNCHANGED <<fitVars, sessionVars>>

\* add_brand_logo: the size the logo is resized to
\* half of the canvas height instead of 15%
LogoSizeHalf(canvas, logo) ==
  LET h           == canvas[2]
      logo_height == FloatToInt(FloatMulInt(h, FloatDiv(FloatOfInt(50), FloatOfInt(100))))
      aspect      == FloatDiv(FloatOfInt(logo[1]), FloatOfInt(logo[2]))
      logo_width  == FloatToInt(FloatMulInt(logo_height, aspect))
  IN  <<logo_width, logo_height>>

LogoSize(canvas, logo) ==
  LET h           == canvas[2]
      logo_height == FloatToInt(FloatMulInt(h, FloatDiv(FloatOfInt(15), FloatOfInt(100))))
      aspect      == FloatDiv(FloatOfInt(logo[1]), FloatOfInt(logo[2]))
      logo_width  == FloatToInt(FloatMulInt(logo_height, aspect))
  IN  <<logo_width, logo_height>>

\* lines 198-200 with a logo path: add_brand_logo
AddBrandLogo ==
  /\ pc = "background"
  /\ brand_config.brand_logo_path /= "None"
  /\ IF ~brand_config.logo.ok THEN Raise("logo")
     ELSE IF ~ResizeOk(LogoSize(base_img.size, brand_config.logo.size))
     THEN Raise("logo")
     ELSE /\ layers' = Append(layers, "logo")
          /\ logo_box' = <<30, 30>> \o LogoSize(base_img.size, brand_config.logo.size)
          /\ pc' = "logo"
          /\ UNCHANGED <<base_img, fonts, text_layout, error>>
  /\ UNCHANGED <<brand_config, post_config, no_user_image>>
  /\ UNCHANGED <<fitVars, sessionVars>>

\* lines 198-200 without a logo path
SkipBrandLogo ==
  /\ pc = "background"
  /\ brand_config.brand_logo_path = "None"
  /\ pc' = "logo"
  /\ UNCHANGED <<base_img, layers, logo_box, fonts, text_layout, error>>
  /\ UNCHANGED <<brand_config, post_config, no_user_image>>
  /\ UNCHANGED <<fitVars, sessionVars>>

\* ImageFont.truetype in a try, ImageFont.load_default in the except
LoadFont(path) == IF path = "loadable" THEN "truetype" ELSE "default"

padding == 50

total_area_height == 250

\* the rectangle of the overlay behind the text: x, y, width, height
OverlayRect(canvas) ==
  <<0, canvas[2] - total_area_height - padding, canvas[1], total_area_height>>

\* the text's right edge on the centre line
TextXRightAligned(w, tw) == w \div 2 - tw

TextX(w, tw) == (w - tw) \div 2

\* the text centred on the plate's middle row
TextYCentred(h, th) == h - total_area_height - padding + (total_area_height - th) \div 2 - 20

TextY(h, th) == h - total_area_height - padding + (total_area_height \div 2 - th) - 20

\* widths and heights textbbox can measure: 0 for the empty string, small
\* ones, and widths around and beyond the canvas width
TextWidths(w) == (0..MaxTextW) \cup {w - 1, w, w + 1, w + MaxTextW}

TextHeights == (0..MaxTextH) \cup {60}

\* lines 202-205: add_text_overlays, then return base_img
AddTextOverlays ==
  /\ pc = "logo"
  /\ fonts' = [primary   |-> LoadFont(brand_config.primary_font_path),
               secondary |-> LoadFont(brand_config.secondary_font_path)]
  /\ LET w == base_img.size[1]
         h == base_img.size[2]
         bottom_text == post_config.occasion
     IN  \E tw \in TextWidths(w), th \in TextHeights :
           LET tx == TextX(w, tw)
               ty == TextY(h, th)
           IN  IF bottom_text /= ""
               THEN \E btw \in TextWidths(w), bth \in TextHeights :
                      /\ text_layout' = [overlay |-> OverlayRect(base_img.size),
                                         tx |-> tx, ty |-> ty, tw |-> tw, th |-> th,
                                         bottom |-> TRUE, bx |-> TextX(w, btw),
                                         by |-> ty + th + 20, btw |-> btw, bth |-> bth]
                      /\ layers' = layers \o <<"plate", "text", "text">>
               ELSE /\ text_layout' = [NoText EXCEPT !.tx = tx, !.ty = ty,
                                                     !.tw = tw, !.th = th,
                                                     !.overlay = OverlayRect(base_img.size)]
                    /\ layers' = layers \o <<"plate", "text">>
  /\ pc' = "returned"
  /\ UNCHANGED <<base_img, logo_box, error>>
  /\ UNCHANGED <<brand_config, post_config, no_user_image>>
  /\ UNCHANGED <<fitVars, sessionVars>>


RenderNext ==
  \/ BackgroundAI
  \/ BackgroundUser
  \/ AddBrandLogo
  \/ SkipBrandLogo
  \/ AddTextOverlays

\* ------------------------------------------------------------------------
\* The Streamlit script: one run per interaction of a session; the sessions
\* are threads of one server process and share its working directory
\* ------------------------------------------------------------------------
Sessions == {"s1", "s2"}

LOGO_PATH == "temp_brand_logo.png"

\* f"temp_uploaded_image.{uploaded_image.name.split('.')[-1]}"
ImagePath(ext) == IF ext = "png" THEN "temp_uploaded_image.png"
                  ELSE "temp_uploaded_image.jpg"

Paths == {LOGO_PATH, ImagePath("png"), ImagePath("jpg")}

\* what a session has in its uploaders and whether this run is the button's
Widgets == [logo : BOOLEAN, image : {"none", "png", "jpg"}, button : BOOLEAN]

NothingLoaded == [bg |-> "none", logo |-> "none"]

SessionStart ==
  /\ files = [p \in Paths |-> "absent"]
  /\ spc = [s \in Sessions |-> "idle"]
  /\ widgets = [s \in Sessions |-> [logo |-> FALSE, image |-> "none", button |-> FALSE]]
  /\ loaded = [s \in Sessions |-> NothingLoaded]
  /\ runs = [s \in Sessions |-> 0]

\* an interaction of the user starts the script from the top
StartRun(s) ==
  /\ spc[s] = "idle"
  /\ runs[s] < MaxRuns
  /\ \E wd \in Widgets :
       widgets' = [widgets EXCEPT ![s] = wd]
  /\ runs' = [runs EXCEPT ![s] = @ + 1]
  /\ loaded' = [loaded EXCEPT ![s] = NothingLoaded]
  /\ spc' = [spc EXCEPT ![s] = "logo"]
  /\ UNCHANGED files
  /\ UNCHANGED <<fitVars, renderVars>>

\* lines 224-230
WriteLogo(s) ==
  /\ spc[s] = "logo"
  /\ files' = IF widgets[s].logo THEN [files EXCEPT ![LOGO_PATH] = s] ELSE files
  /\ spc' = [spc EXCEPT ![s] = "image"]
  /\ UNCHANGED <<widgets, loaded, runs>>
  /\ UNCHANGED <<fitVars, renderVars>>

\* lines 250-261
WriteImage(s) ==
  /\ spc[s] = "image"
  /\ files' = IF widgets[s].image /= "none"
              THEN [files EXCEPT ![ImagePath(widgets[s].image)] = s] ELSE files
  /\ spc' = [spc EXCEPT ![s] = IF widgets[s].button THEN "render_bg" ELSE "idle"]
  /\ UNCHANGED <<widgets, loaded, runs>>
  /\ UNCHANGED <<fitVars, renderVars>>

\* generate_post_image, lines 186-196: load_image(user_image_path) raises when
\* the file is gone, and the exception ends the script run
RenderBackground(s) ==
  /\ spc[s] = "render_bg"
  /\ IF widgets[s].image = "none"
     THEN /\ loaded' = [loaded EXCEPT ![s].bg = "ai"]
          /\ spc' = [spc EXCEPT ![s] = "render_logo"]
     ELSE IF files[ImagePath(widgets[s].image)] = "absent"
     THEN /\ loaded' = [loaded EXCEPT ![s].bg = "missing"]
          /\ spc' = [spc EXCEPT ![s] = "idle"]
     ELSE /\ loaded' = [loaded EXCEPT ![s].bg = files[ImagePath(widgets[s].image)]]
          /\ spc' = [spc EXCEPT ![s] = "render_logo"]
  /\ UNCHANGED <<files, widgets, runs>>
  /\ UNCHANGED <<fitVars, renderVars>>

\* generate_post_image, lines 198-205: load_image(logo_path) in add_brand_logo
RenderLogo(s) ==
  /\ spc[s] = "render_logo"
  /\ IF ~widgets[s].logo
     THEN /\ loaded' = loaded
          /\ spc' = [spc EXCEPT ![s] = "cleanup_image"]
     ELSE IF files[LOGO_PATH] = "absent"
     THEN /\ loaded' = [loaded EXCEPT ![s].logo = "missing"]
          /\ spc' = [spc EXCEPT ![s] = "idle"]
     ELSE /\ loaded' = [loaded EXCEPT ![s].logo = files[LOGO_PATH]]
          /\ spc' = [spc EXCEPT ![s] = "cleanup_image"]
  /\ UNCHANGED <<files, widgets, runs>>
  /\ UNCHANGED <<fitVars, renderVars>>

\* lines 280-281
CleanupImage(s) ==
  /\ spc[s] = "cleanup_image"
  /\ files' = IF widgets[s].image /= "none"
              THEN [files EXCEPT ![ImagePath(widgets[s].image)] = "absent"] ELSE files
  /\ spc' = [spc EXCEPT ![s] = "cleanup_logo"]
  /\ UNCHANGED <<widgets, loaded, runs>>
  /\ UNCHANGED <<fitVars, renderVars>>

\* lines 282-283
CleanupLogo(s) ==
  /\ spc[s] = "cleanup_logo"
  /\ files' = IF widgets[s].logo THEN [files EXCEPT ![LOGO_PATH] = "absent"] ELSE files
  /\ spc' = [spc EXCEPT ![s] = "idle"]
  /\ UNCHANGED <<widgets, loaded, runs>>
  /\ UNCHANGED <<fitVars, renderVars>>

SessionNext ==
  \E s \in Sessions :
    \/ StartRun(s)
    \/ WriteLogo(s)
    \/ WriteImage(s)
    \/ RenderBackground(s)
    \/ RenderLogo(s)
    \/ CleanupImage(s)
    \/ CleanupLogo(s)

\* ------------------------------------------------------------------------
\* Specifications
\* ------------------------------------------------------------------------
Init == RenderStart /\ FitIdle /\ SessionStart

Next == RenderNext

Spec == Init /\ [][Next]_vars

FitInit == FitStart /\ RenderIdle /\ SessionStart

FitNext == FitCall

FitSpec == FitInit /\ [][FitNext]_vars

SessionInit == SessionStart /\ FitIdle /\ RenderIdle

SessionSpec == SessionInit /\ [][SessionNext]_vars

\* ------------------------------------------------------------------------
\* Properties
\* ------------------------------------------------------------------------
Abs(n) == IF n < 0 THEN 0 - n ELSE n

FitWider == fres.branch = "wider"

\* the deficit the padding has to fill, and its leading and trailing parts
Deficit == IF FitWider THEN ftarget[2] - fres.scaled[2] ELSE ftarget[1] - fres.scaled[1]

LeadingPad == IF FitWider THEN fres.border[2] ELSE fres.border[1]

TrailingPad == IF FitWider THEN fres.border[4] ELSE fres.border[3]

EqualAspect == fsrc[1] * ftarget[2] = fsrc[2] * ftarget[1]

\* C1: every call of fit_image_to_size with a source of at least 1x1 and a
\* preset target returns an image of exactly the target size.
FitExactSize ==
  fpc = "done" => fres.status = "ok" /\ fres.size = ftarget

\* C4: whenever fit_image_to_size pads, the leading pad is floor(deficit/2),
\* the trailing pad is the rest, the two differ by at most 1 with the odd
\* pixel on the trailing side, and the other axis is not padded.
SymmetricPadding ==
  (fpc = "done" /\ fres.sub = "pad") =>
    /\ Deficit > 0
    /\ LeadingPad = Deficit \div 2
    /\ TrailingPad = Deficit - LeadingPad
    /\ LeadingPad + TrailingPad = Deficit
    /\ TrailingPad - LeadingPad \in {0, 1}
    /\ (Deficit % 2 = 1 => TrailingPad = LeadingPad + 1)
    /\ IF FitWider THEN fres.border[1] = 0 /\ fres.border[3] = 0
       ELSE fres.border[2] = 0 /\ fres.border[4] = 0

\* a result padded top and bottom with an odd deficit: the bottom gets the
\* extra pixel
PadOddDeficit ==
  /\ fpc = "done" /\ fres.sub = "pad" /\ Deficit % 2 = 1
  /\ FitWider /\ TrailingPad = LeadingPad + 1

\* C8: the scaled dimension is the exact quotient rounded to the nearest
\* integer: round(tw*h/w) in the wider branch, round(th*w/h) in the other.
ScaledRounded ==
  (fpc = "done" /\ fres.status = "ok") =>
    IF FitWider
    THEN Abs(2 * fres.scaled[2] * fsrc[1] - 2 * ftarget[1] * fsrc[2]) <= fsrc[1]
    ELSE Abs(2 * fres.scaled[1] * fsrc[2] - 2 * ftarget[2] * fsrc[1]) <= fsrc[2]

\* C10: the scaled size never exceeds the target on either axis, so no call
\* takes a crop branch and every result is a resize or a resize with padding;
\* with equal aspect ratios the result is the resize alone, unpadded.
NoCropBranch ==
  fpc = "done" =>
    /\ fres.sub /= "crop"
    /\ fres.scaled[1] <= ftarget[1]
    /\ fres.scaled[2] <= ftarget[2]
    /\ (fres.status = "ok" => fres.sub \in {"none", "pad"})
    /\ (EqualAspect =>
          /\ fres.status = "ok"
          /\ fres.sub = "none"
          /\ fres.border = NoPadding
          /\ fres.scaled = ftarget
          /\ fres.size = ftarget)

\* a source of the target's aspect ratio but another size, resized and
\* neither padded nor cropped
EqualAspectPureResize ==
  /\ fpc = "done" /\ EqualAspect /\ fsrc /= ftarget
  /\ fres.status = "ok" /\ fres.sub = "none" /\ fres.size = ftarget

Composited == pc \in {"background", "logo", "returned"}

Rank(layer) ==
  CASE layer = "background"  -> 0
    [] layer = "band"        -> 1
    [] layer = "plate"       -> 2
    [] layer = "logo_shadow" -> 3
    [] layer = "logo"        -> 4
    [] layer = "text_shadow" -> 5
    [] layer = "text"        -> 6

LogoBottom == logo_box[2] + logo_box[4]

CosmeticFailuresAbsorbed ==
  /\ error /= "logo"
  /\ pc = "raised" => error = "background"

\* C6: the background, generated or uploaded, is scaled by the same factor on
\* both axes up to the rounding of a pixel and only then padded or cropped to
\* the target size.
BackgroundUniformScale ==
  Composited =>
    /\ base_img.size = post_config.desired_output_size
    /\ Abs(base_img.scaled[1] * base_img.source[2]
           - base_img.scaled[2] * base_img.source[1])
         <= base_img.source[1] + base_img.source[2]

\* twice the horizontal centre of a block and of the plate with the given
\* margin to both canvas edges
Centred(x, bw, w, margin) ==
  LET plate_x == margin
      plate_w == w - 2 * margin
  IN  Abs((2 * x + bw) - (2 * plate_x + plate_w)) <= 2

\* C7: every drawn text block has its horizontal centre within 1 pixel of the
\* centre of the plate, for the overlay as drawn (no margin) and for a plate
\* with 50px margins, whatever the measured width.
TextCentered ==
  pc = "returned" =>
    \A margin \in {0, padding} :
      /\ Centred(text_layout.tx, text_layout.tw, base_img.size[1], margin)
      /\ text_layout.bottom =>
           Centred(text_layout.bx, text_layout.btw, base_img.size[1], margin)

\* both texts drawn, the primary wider than the canvas, the secondary with a
\* width of the other parity
WideTextDrawn ==
  /\ pc = "returned" /\ text_layout.bottom
  /\ text_layout.tw > base_img.size[1]
  /\ text_layout.btw % 2 /= text_layout.tw % 2

\* C9: the primary text's origin is plate_y + (plate_height - ph)/2 - 20,
\* moved up by half the secondary text's height when there is a secondary text.
PrimaryYClaimed ==
  pc = "returned" =>
    LET r == text_layout.overlay
    IN  text_layout.ty =
          r[2] + (r[4] - text_layout.th) \div 2 - 20
          - (IF text_layout.bottom THEN text_layout.bth \div 2 ELSE 0)

\* C9 as the code has it: the primary text's origin is
\* plate_y + (plate_height \div 2 - ph) - 20, so that its lower edge is 20px
\* above the plate's middle row, with or without a secondary text; the
\* secondary text starts 20px below the primary text, on the middle row.
PrimaryYActual ==
  pc = "returned" =>
    LET r == text_layout.overlay
    IN  /\ r = <<0, base_img.size[2] - 300, base_img.size[1], 250>>
        /\ text_layout.ty = r[2] + (r[4] \div 2 - text_layout.th) - 20
        /\ text_layout.ty + text_layout.th + 20 = r[2] + r[4] \div 2
        /\ text_layout.bottom =>
             text_layout.by = text_layout.ty + text_layout.th + 20

\* both texts drawn with a primary text of the usual height
TallTextsDrawn ==
  /\ pc = "returned" /\ text_layout.bottom
  /\ text_layout.th = 60 /\ text_layout.bth > 0

\* C3: each session renders with the logo and the background it uploaded
\* itself: what it loads is never another session's file and never missing.
SessionsIsolated ==
  \A s \in Sessions :
    /\ loaded[s].logo \in {"none", s}
    /\ loaded[s].bg \in {"none", "ai", s}

====
